---------------------------- MODULE Spec2Model ----------------------------
(***************************************************************************)
(* Adaptive benefit questionnaire engine                                   *)
(* (src/adaptive_questionnaire_engine.py), modelled as a state machine.    *)
(*                                                                         *)
(* Number representation.  The engine computes on Python floats; here      *)
(* every quantity is an exact fixed-point integer:                         *)
(*   - a benefit score s in [0,100] is the integer 1000*s ("milli-points");*)
(*     every prior is a multiple of 0.5 and every update is                *)
(*     correlation(2 decimals) * 11 * (1 + 0.1*k), a multiple of 0.001;    *)
(*   - a correlation c in [-1,1] is the integer 100*c;                     *)
(*   - logarithms and entropies are in units of 1/One (One = 2^14);        *)
(*   - an information gain is in units of 1/IGOne (IGOne = 2*One*1000).    *)
(***************************************************************************)
EXTENDS Integers, Sequences, FiniteSets, TLC

VARIABLES
  demographics,      \* UserDemographics: age, marital_status, num_children
  financials,        \* UserFinancials
  benefit_scores,    \* engine.benefit_scores : benefit -> milli-points
  question_history,  \* engine.question_history (ids); questions_asked holds the same questions
  answers,           \* engine.answers : Answer records
  expected_ig,       \* engine.question_bank[i].expected_ig, per question id
  ret,               \* what the last operation returned to its caller
  replay             \* a second session of the same profile (SpecReplay), else NoSession

vars == << demographics, financials, benefit_scores, question_history,
           answers, expected_ig, ret, replay >>

-----------------------------------------------------------------------------
(* Catalogs *)

BenefitType ==
  << "MEDICAL", "LIFE", "DISABILITY", "DENTAL",
     "VISION", "LONG_TERM_CARE", "RETIREMENT_401K", "HSA",
     "HEALTHCARE_FSA", "DEPENDENT_CARE_FSA", "ACCIDENT", "CRITICAL_ILLNESS",
     "HOSPITAL_INDEMNITY", "LEGAL_SERVICES", "IDENTITY_THEFT", "PET_INSURANCE",
     "COMMUTER_BENEFITS", "MENTAL_HEALTH_STIPEND", "PAWTERNITY_LEAVE", "SABBATICAL",
     "FERTILITY_SUPPORT", "MENOPAUSE_SUPPORT", "STUDENT_LOAN_REPAY", "EMERGENCY_SAVINGS_MATCH",
     "FINANCIAL_COACHING", "CRYPTO_STOCK_BENEFITS", "UNLIMITED_LIFE_DAYS", "REMOTE_WORK_STIPEND",
     "COWORKING_MEMBERSHIP", "WORKCATION_POLICY", "LEARNING_STIPEND", "SIDE_PROJECT_SUPPORT",
     "LANGUAGE_LEARNING", "VOLUNTEER_TIME_OFF", "DONATION_MATCHING", "SOCIAL_IMPACT_PROJECTS",
     "DEPENDENT_CARE", "SUPPLEMENTAL_LIFE" >>

PriorOrder ==
  << "MEDICAL", "LIFE", "DISABILITY", "DENTAL",
     "VISION", "LONG_TERM_CARE", "RETIREMENT_401K", "HSA",
     "HEALTHCARE_FSA", "DEPENDENT_CARE_FSA", "DEPENDENT_CARE", "ACCIDENT",
     "CRITICAL_ILLNESS", "HOSPITAL_INDEMNITY", "LEGAL_SERVICES", "IDENTITY_THEFT",
     "PET_INSURANCE", "COMMUTER_BENEFITS", "SUPPLEMENTAL_LIFE", "MENTAL_HEALTH_STIPEND",
     "PAWTERNITY_LEAVE", "SABBATICAL", "FERTILITY_SUPPORT", "MENOPAUSE_SUPPORT",
     "STUDENT_LOAN_REPAY", "EMERGENCY_SAVINGS_MATCH", "FINANCIAL_COACHING", "CRYPTO_STOCK_BENEFITS",
     "UNLIMITED_LIFE_DAYS", "REMOTE_WORK_STIPEND", "COWORKING_MEMBERSHIP", "WORKCATION_POLICY",
     "LEARNING_STIPEND", "SIDE_PROJECT_SUPPORT", "LANGUAGE_LEARNING", "VOLUNTEER_TIME_OFF",
     "DONATION_MATCHING", "SOCIAL_IMPACT_PROJECTS" >>

QuestionBank ==
  <<
     [id |-> "Q1_risk_behavior", expected_ig |-> 21,
      correlations_a |-> << <<"ACCIDENT", 72>>, <<"LIFE", 58>>, <<"DISABILITY", 51>>, <<"CRITICAL_ILLNESS", 38>>, <<"MEDICAL", 41>> >>,
      correlations_b |-> << <<"VISION", 42>>, <<"LONG_TERM_CARE", 31>>, <<"ACCIDENT", -35>> >>],
     [id |-> "Q2_health_consciousness", expected_ig |-> 19,
      correlations_a |-> << <<"MEDICAL", -45>>, <<"ACCIDENT", 38>>, <<"CRITICAL_ILLNESS", 41>> >>,
      correlations_b |-> << <<"MEDICAL", 62>>, <<"HEALTHCARE_FSA", 55>>, <<"VISION", 48>> >>],
     [id |-> "Q3_work_travel", expected_ig |-> 18,
      correlations_a |-> << <<"ACCIDENT", 51>>, <<"DISABILITY", 44>>, <<"LIFE", 39>> >>,
      correlations_b |-> << <<"COMMUTER_BENEFITS", 48>> >>],
     [id |-> "Q4_financial_planning", expected_ig |-> 17,
      correlations_a |-> << <<"RETIREMENT_401K", 68>>, <<"HSA", 61>>, <<"MEDICAL", 35>> >>,
      correlations_b |-> << <<"DISABILITY", 54>>, <<"LIFE", 48>> >>],
     [id |-> "Q5_family_priorities", expected_ig |-> 16,
      correlations_a |-> << <<"LIFE", 71>>, <<"RETIREMENT_401K", 58>> >>,
      correlations_b |-> << <<"DEPENDENT_CARE_FSA", 61>>, <<"HEALTHCARE_FSA", 47>> >>],
     [id |-> "Q6_stress_management", expected_ig |-> 15,
      correlations_a |-> << <<"LONG_TERM_CARE", -22>>, <<"MEDICAL", -15>> >>,
      correlations_b |-> << <<"VISION", 44>>, <<"LONG_TERM_CARE", 31>> >>],
     [id |-> "Q7_career_commitment", expected_ig |-> 14,
      correlations_a |-> << <<"LIFE", 42>>, <<"DISABILITY", 38>> >>,
      correlations_b |-> << <<"DEPENDENT_CARE_FSA", 48>> >>],
     [id |-> "Q8_tech_adoption", expected_ig |-> 12,
      correlations_a |-> << <<"HSA", 44>>, <<"MEDICAL", 28>> >>,
      correlations_b |-> << <<"MEDICAL", 42>> >>],
     [id |-> "Q9_pet_ownership", expected_ig |-> 11,
      correlations_a |-> << <<"PET_INSURANCE", 91>> >>,
      correlations_b |-> << <<"PET_INSURANCE", -95>> >>],
     [id |-> "Q10_dental_habits", expected_ig |-> 10,
      correlations_a |-> << <<"DENTAL", 71>> >>,
      correlations_b |-> << <<"DENTAL", 38>> >>],
     [id |-> "Q11_childcare", expected_ig |-> 0,
      correlations_a |-> << <<"DEPENDENT_CARE_FSA", 85>>, <<"DEPENDENT_CARE", 85>>, <<"LIFE", 45>> >>,
      correlations_b |-> << <<"DEPENDENT_CARE_FSA", -70>>, <<"DEPENDENT_CARE", -70>> >>],
     [id |-> "Q12_kids_activities", expected_ig |-> 0,
      correlations_a |-> << <<"LIFE", 55>>, <<"ACCIDENT", 48>>, <<"HEALTHCARE_FSA", 40>> >>,
      correlations_b |-> << <<"RETIREMENT_401K", 35>> >>],
     [id |-> "Q13_exercise_frequency", expected_ig |-> 0,
      correlations_a |-> << <<"MEDICAL", -35>>, <<"LONG_TERM_CARE", -40>>, <<"DISABILITY", -25>> >>,
      correlations_b |-> << <<"MEDICAL", 50>>, <<"CRITICAL_ILLNESS", 45>>, <<"HOSPITAL_INDEMNITY", 38>> >>],
     [id |-> "Q14_medical_history", expected_ig |-> 0,
      correlations_a |-> << <<"MEDICAL", 75>>, <<"CRITICAL_ILLNESS", 68>>, <<"DISABILITY", 52>> >>,
      correlations_b |-> << <<"HSA", 45>>, <<"MEDICAL", 30>> >>],
     [id |-> "Q15_chronic_conditions", expected_ig |-> 0,
      correlations_a |-> << <<"MEDICAL", 85>>, <<"HEALTHCARE_FSA", 70>>, <<"HOSPITAL_INDEMNITY", 60>> >>,
      correlations_b |-> << <<"HSA", 50>>, <<"ACCIDENT", 30>> >>],
     [id |-> "Q16_mental_health", expected_ig |-> 0,
      correlations_a |-> << <<"MEDICAL", 65>>, <<"HEALTHCARE_FSA", 55>>, <<"LEGAL_SERVICES", 25>> >>,
      correlations_b |-> << <<"LONG_TERM_CARE", -20>> >>],
     [id |-> "Q17_vision_needs", expected_ig |-> 0,
      correlations_a |-> << <<"VISION", 88>>, <<"HEALTHCARE_FSA", 42>> >>,
      correlations_b |-> << <<"VISION", 25>> >>],
     [id |-> "Q18_retirement_planning", expected_ig |-> 0,
      correlations_a |-> << <<"RETIREMENT_401K", 80>>, <<"HSA", 55>>, <<"LIFE", 48>> >>,
      correlations_b |-> << <<"DISABILITY", 60>>, <<"ACCIDENT", 40>> >>],
     [id |-> "Q19_debt_level", expected_ig |-> 0,
      correlations_a |-> << <<"DISABILITY", 72>>, <<"LIFE", 68>>, <<"CRITICAL_ILLNESS", 55>> >>,
      correlations_b |-> << <<"RETIREMENT_401K", 45>>, <<"HSA", 38>> >>],
     [id |-> "Q20_emergency_fund", expected_ig |-> 0,
      correlations_a |-> << <<"HSA", 65>>, <<"MEDICAL", -30>> >>,
      correlations_b |-> << <<"DISABILITY", 70>>, <<"ACCIDENT", 55>>, <<"CRITICAL_ILLNESS", 50>> >>],
     [id |-> "Q21_income_stability", expected_ig |-> 0,
      correlations_a |-> << <<"RETIREMENT_401K", 58>>, <<"HSA", 45>> >>,
      correlations_b |-> << <<"DISABILITY", 75>>, <<"LIFE", 60>>, <<"ACCIDENT", 48>> >>],
     [id |-> "Q22_commute", expected_ig |-> 0,
      correlations_a |-> << <<"COMMUTER_BENEFITS", 90>>, <<"ACCIDENT", 40>> >>,
      correlations_b |-> << <<"COMMUTER_BENEFITS", 20>> >>],
     [id |-> "Q23_work_from_home", expected_ig |-> 0,
      correlations_a |-> << <<"VISION", 55>>, <<"COMMUTER_BENEFITS", -85>> >>,
      correlations_b |-> << <<"COMMUTER_BENEFITS", 65>>, <<"ACCIDENT", 35>> >>],
     [id |-> "Q24_travel_frequency", expected_ig |-> 0,
      correlations_a |-> << <<"ACCIDENT", 65>>, <<"LIFE", 48>>, <<"MEDICAL", 38>> >>,
      correlations_b |-> << <<"DENTAL", 35>>, <<"VISION", 30>> >>],
     [id |-> "Q25_hobbies", expected_ig |-> 0,
      correlations_a |-> << <<"ACCIDENT", 70>>, <<"DISABILITY", 55>>, <<"LIFE", 42>> >>,
      correlations_b |-> << <<"VISION", 45>>, <<"DENTAL", 35>> >>],
     [id |-> "Q26_family_size", expected_ig |-> 0,
      correlations_a |-> << <<"LIFE", 80>>, <<"DISABILITY", 65>>, <<"DEPENDENT_CARE_FSA", 75>>, <<"DEPENDENT_CARE", 75>> >>,
      correlations_b |-> << <<"RETIREMENT_401K", 50>>, <<"HSA", 42>> >>],
     [id |-> "Q27_spouse_income", expected_ig |-> 0,
      correlations_a |-> << <<"DISABILITY", -40>>, <<"LIFE", -35>> >>,
      correlations_b |-> << <<"DISABILITY", 75>>, <<"LIFE", 70>>, <<"CRITICAL_ILLNESS", 55>> >>],
     [id |-> "Q28_elderly_parents", expected_ig |-> 0,
      correlations_a |-> << <<"LONG_TERM_CARE", 68>>, <<"LEGAL_SERVICES", 55>>, <<"LIFE", 45>> >>,
      correlations_b |-> << <<"RETIREMENT_401K", 40>> >>],
     [id |-> "Q29_job_security", expected_ig |-> 0,
      correlations_a |-> << <<"RETIREMENT_401K", 60>>, <<"HSA", 48>> >>,
      correlations_b |-> << <<"DISABILITY", 78>>, <<"ACCIDENT", 60>>, <<"HEALTHCARE_FSA", 50>> >>],
     [id |-> "Q30_driving_habits", expected_ig |-> 0,
      correlations_a |-> << <<"ACCIDENT", 75>>, <<"DISABILITY", 58>>, <<"LIFE", 45>> >>,
      correlations_b |-> << <<"ACCIDENT", 30>>, <<"COMMUTER_BENEFITS", 45>> >>],
     [id |-> "Q31_hazardous_job", expected_ig |-> 0,
      correlations_a |-> << <<"DISABILITY", 85>>, <<"ACCIDENT", 82>>, <<"LIFE", 70>>, <<"CRITICAL_ILLNESS", 58>> >>,
      correlations_b |-> << <<"VISION", 40>>, <<"DENTAL", 35>> >>],
     [id |-> "Q32_legal_concerns", expected_ig |-> 0,
      correlations_a |-> << <<"LEGAL_SERVICES", 85>>, <<"IDENTITY_THEFT", 55>> >>,
      correlations_b |-> << <<"LEGAL_SERVICES", 15>> >>],
     [id |-> "Q33_identity_protection", expected_ig |-> 0,
      correlations_a |-> << <<"IDENTITY_THEFT", 88>> >>,
      correlations_b |-> << <<"IDENTITY_THEFT", 20>> >>],
     [id |-> "Q34_online_activity", expected_ig |-> 0,
      correlations_a |-> << <<"IDENTITY_THEFT", 65>> >>,
      correlations_b |-> << <<"IDENTITY_THEFT", 25>> >>],
     [id |-> "Q35_hospital_visits", expected_ig |-> 0,
      correlations_a |-> << <<"HOSPITAL_INDEMNITY", 82>>, <<"HEALTHCARE_FSA", 65>>, <<"MEDICAL", 55>> >>,
      correlations_b |-> << <<"HSA", 45>> >>],
     [id |-> "Q36_cancer_history", expected_ig |-> 0,
      correlations_a |-> << <<"CRITICAL_ILLNESS", 88>>, <<"MEDICAL", 70>>, <<"HEALTHCARE_FSA", 58>> >>,
      correlations_b |-> << <<"CRITICAL_ILLNESS", 30>> >>],
     [id |-> "Q37_heart_health", expected_ig |-> 0,
      correlations_a |-> << <<"CRITICAL_ILLNESS", 75>>, <<"MEDICAL", 65>>, <<"DISABILITY", 55>> >>,
      correlations_b |-> << <<"LONG_TERM_CARE", -30>> >>],
     [id |-> "Q38_dental_work", expected_ig |-> 0,
      correlations_a |-> << <<"DENTAL", 85>>, <<"HEALTHCARE_FSA", 55>> >>,
      correlations_b |-> << <<"DENTAL", 35>> >>],
     [id |-> "Q39_orthodontics", expected_ig |-> 0,
      correlations_a |-> << <<"DENTAL", 90>>, <<"HEALTHCARE_FSA", 65>>, <<"DEPENDENT_CARE_FSA", 40>>, <<"DEPENDENT_CARE", 40>> >>,
      correlations_b |-> << <<"DENTAL", 30>> >>],
     [id |-> "Q40_retirement_age", expected_ig |-> 0,
      correlations_a |-> << <<"LONG_TERM_CARE", 75>>, <<"MEDICAL", 60>>, <<"RETIREMENT_401K", 55>> >>,
      correlations_b |-> << <<"LIFE", 50>>, <<"DISABILITY", 45>> >>],
     [id |-> "Q41_aging_parents_care", expected_ig |-> 0,
      correlations_a |-> << <<"LONG_TERM_CARE", 80>>, <<"LEGAL_SERVICES", 60>> >>,
      correlations_b |-> << <<"DEPENDENT_CARE_FSA", 35>>, <<"DEPENDENT_CARE", 35>> >>],
     [id |-> "Q42_mental_health", expected_ig |-> 0,
      correlations_a |-> << <<"MENTAL_HEALTH_STIPEND", 90>>, <<"MEDICAL", 40>> >>,
      correlations_b |-> << <<"MENTAL_HEALTH_STIPEND", 10>>, <<"ACCIDENT", 30>> >>],
     [id |-> "Q43_student_debt", expected_ig |-> 0,
      correlations_a |-> << <<"STUDENT_LOAN_REPAY", 95>>, <<"FINANCIAL_COACHING", 70>> >>,
      correlations_b |-> << <<"STUDENT_LOAN_REPAY", 5>>, <<"RETIREMENT_401K", 60>> >>],
     [id |-> "Q44_emergency_fund", expected_ig |-> 0,
      correlations_a |-> << <<"EMERGENCY_SAVINGS_MATCH", 95>>, <<"FINANCIAL_COACHING", 80>>, <<"DISABILITY", 70>> >>,
      correlations_b |-> << <<"EMERGENCY_SAVINGS_MATCH", 20>>, <<"RETIREMENT_401K", 65>> >>],
     [id |-> "Q45_work_style", expected_ig |-> 0,
      correlations_a |-> << <<"REMOTE_WORK_STIPEND", 90>>, <<"WORKCATION_POLICY", 85>>, <<"COWORKING_MEMBERSHIP", 70>> >>,
      correlations_b |-> << <<"REMOTE_WORK_STIPEND", 10>>, <<"COMMUTER_BENEFITS", 75>> >>],
     [id |-> "Q46_learning_goals", expected_ig |-> 0,
      correlations_a |-> << <<"LEARNING_STIPEND", 90>>, <<"SIDE_PROJECT_SUPPORT", 75>>, <<"LANGUAGE_LEARNING", 65>> >>,
      correlations_b |-> << <<"LEARNING_STIPEND", 15>>, <<"RETIREMENT_401K", 50>> >>],
     [id |-> "Q47_social_values", expected_ig |-> 0,
      correlations_a |-> << <<"VOLUNTEER_TIME_OFF", 90>>, <<"DONATION_MATCHING", 85>>, <<"SOCIAL_IMPACT_PROJECTS", 80>> >>,
      correlations_b |-> << <<"VOLUNTEER_TIME_OFF", 10>>, <<"RETIREMENT_401K", 45>> >>],
     [id |-> "Q48_burnout_risk", expected_ig |-> 0,
      correlations_a |-> << <<"SABBATICAL", 85>>, <<"UNLIMITED_LIFE_DAYS", 80>>, <<"MENTAL_HEALTH_STIPEND", 75>> >>,
      correlations_b |-> << <<"SABBATICAL", 10>>, <<"MEDICAL", 40>> >>],
     [id |-> "Q49_family_planning", expected_ig |-> 0,
      correlations_a |-> << <<"FERTILITY_SUPPORT", 90>>, <<"DEPENDENT_CARE_FSA", 75>>, <<"LIFE", 70>> >>,
      correlations_b |-> << <<"FERTILITY_SUPPORT", 5>>, <<"RETIREMENT_401K", 60>> >>],
     [id |-> "Q50_financial_literacy", expected_ig |-> 0,
      correlations_a |-> << <<"FINANCIAL_COACHING", 90>>, <<"CRYPTO_STOCK_BENEFITS", 40>>, <<"EMERGENCY_SAVINGS_MATCH", 70>> >>,
      correlations_b |-> << <<"FINANCIAL_COACHING", 15>>, <<"RETIREMENT_401K", 75>> >>],
     [id |-> "Q51_life_priorities", expected_ig |-> 0,
      correlations_a |-> << <<"LEARNING_STIPEND", 80>>, <<"WORKCATION_POLICY", 75>>, <<"SABBATICAL", 70>> >>,
      correlations_b |-> << <<"RETIREMENT_401K", 85>>, <<"DISABILITY", 70>>, <<"LIFE", 65>> >>],
     [id |-> "Q52_risky_behavior", expected_ig |-> 0,
      correlations_a |-> << <<"ACCIDENT", 85>>, <<"CRITICAL_ILLNESS", 60>>, <<"DISABILITY", 75>> >>,
      correlations_b |-> << <<"ACCIDENT", 20>>, <<"MEDICAL", 40>> >>],
     [id |-> "Q53_pet_commitment", expected_ig |-> 0,
      correlations_a |-> << <<"PET_INSURANCE", 95>>, <<"PAWTERNITY_LEAVE", 85>> >>,
      correlations_b |-> << <<"PET_INSURANCE", 5>>, <<"DEPENDENT_CARE_FSA", 40>> >>],
     [id |-> "Q54_side_hustle", expected_ig |-> 0,
      correlations_a |-> << <<"SIDE_PROJECT_SUPPORT", 90>>, <<"LEARNING_STIPEND", 70>> >>,
      correlations_b |-> << <<"SIDE_PROJECT_SUPPORT", 10>>, <<"RETIREMENT_401K", 55>> >>],
     [id |-> "Q55_health_neglect", expected_ig |-> 0,
      correlations_a |-> << <<"MEDICAL", 60>>, <<"CRITICAL_ILLNESS", 70>>, <<"DISABILITY", 65>> >>,
      correlations_b |-> << <<"MEDICAL", 40>>, <<"DENTAL", 60>>, <<"VISION", 55>> >>],
     [id |-> "Q56_crypto_interest", expected_ig |-> 0,
      correlations_a |-> << <<"CRYPTO_STOCK_BENEFITS", 90>>, <<"FINANCIAL_COACHING", 60>> >>,
      correlations_b |-> << <<"CRYPTO_STOCK_BENEFITS", 10>>, <<"RETIREMENT_401K", 80>> >>],
     [id |-> "Q57_menopause_age", expected_ig |-> 0,
      correlations_a |-> << <<"MENOPAUSE_SUPPORT", 95>>, <<"MEDICAL", 60>>, <<"UNLIMITED_LIFE_DAYS", 50>> >>,
      correlations_b |-> << <<"MENOPAUSE_SUPPORT", 5>>, <<"FERTILITY_SUPPORT", 30>> >>],
     [id |-> "Q58_language_goals", expected_ig |-> 0,
      correlations_a |-> << <<"LANGUAGE_LEARNING", 90>>, <<"LEARNING_STIPEND", 70>> >>,
      correlations_b |-> << <<"LANGUAGE_LEARNING", 10>>, <<"RETIREMENT_401K", 45>> >>]
  >>

Benefits == {BenefitType[i] : i \in 1..Len(BenefitType)}

QIndex == 1..Len(QuestionBank)

QuestionIds == {QuestionBank[i].id : i \in QIndex}

Question(id) == QuestionBank[CHOOSE i \in QIndex : QuestionBank[i].id = id]

None == "None"

-----------------------------------------------------------------------------
(* Fixed-point arithmetic standing for math.log2 and the float operations *)

FracBits == 14

One == 2^FracBits

ScoreOne == 1000

RECURSIVE FloorLog2(_)
FloorLog2(n) == IF n < 2 THEN 0 ELSE 1 + FloorLog2(n \div 2)

\* the k fractional bits of log2(m / One) for One <= m < 2*One, by repeated squaring
RECURSIVE Log2Frac(_, _)
Log2Frac(m, k) ==
  IF k = 0 THEN 0
  ELSE LET sq == (m * m) \div One
       IN  IF sq >= 2 * One
           THEN 2^(k - 1) + Log2Frac(sq \div 2, k - 1)
           ELSE Log2Frac(sq, k - 1)

\* math.log2(n) for an integer n >= 1, in units of 1/One
Log2Fix(n) ==
  LET e == FloorLog2(n)
  IN  e * One + Log2Frac((n * One) \div (2^e), FracBits)

Min(a, b) == IF a < b THEN a ELSE b

Max(a, b) == IF a > b THEN a ELSE b

Abs(a) == IF a < 0 THEN -a ELSE a

\* np.clip(x, 0, 100) on milli-points
\* np.clip without its upper bound
ClipBelowOnly(x) == Max(0, x)

Clip(x) == Max(0, Min(100 * ScoreOne, x))

\* -(p*log2(p) + (1-p)*log2(1-p)) at p = i/1000, 0 < i < 1000, in units of 1/One
EntropyAt(i) ==
  LET l1000 == Log2Fix(1000)
  IN  (i * (l1000 - Log2Fix(i)) + (1000 - i) * (l1000 - Log2Fix(1000 - i))) \div 1000

\* the entropies at p = lo/1000 .. hi/1000 as a sequence (zero at p = 0 and p = 1)
RECURSIVE EntropyRange(_, _)
EntropyRange(lo, hi) ==
  IF lo = hi THEN << IF lo = 0 \/ lo = 1000 THEN 0 ELSE EntropyAt(lo) >>
  ELSE LET mid == (lo + hi) \div 2
       IN  EntropyRange(lo, mid) \o EntropyRange(mid + 1, hi)

\* EntropyTable[i + 1] is the entropy at p = i/1000
EntropyTable == EntropyRange(0, 1000)

\* binary entropy of p = score/100 for a milli-point score with 0 < p < 1:
\* tabulated every 0.1 point, linear in between
Interpolate(table, i, r) == table[i + 1] + ((table[i + 2] - table[i + 1]) * r) \div 100

BinaryEntropy(score) == Interpolate(EntropyTable, score \div 100, score % 100)

-----------------------------------------------------------------------------
(* Demographic priors and financial adjustment *)

get_demographic_priors(d) ==
  LET age == d.age
      has_children == d.num_children > 0
      base_life == 40 * ScoreOne + age * 500
                   + (IF has_children THEN 30 * ScoreOne ELSE 0)
                   + (IF d.marital_status = "married" THEN 10 * ScoreOne ELSE 0)
      life == Min(base_life, 95 * ScoreOne)
      dep_care == IF has_children THEN 75 * ScoreOne ELSE 10 * ScoreOne
  IN  [b \in Benefits |->
        CASE b = "MEDICAL" -> (IF age < 30 THEN 65 ELSE IF age < 50 THEN 75 ELSE 85) * ScoreOne
          [] b = "LIFE" -> life
          [] b = "DISABILITY" -> (IF age < 25 THEN 40 ELSE IF age < 55 THEN 70 ELSE 50) * ScoreOne
          [] b = "DENTAL" -> 60 * ScoreOne
          [] b = "VISION" -> 55 * ScoreOne
          [] b = "LONG_TERM_CARE" -> (IF age < 40 THEN 10 ELSE IF age < 55 THEN 35 ELSE 65) * ScoreOne
          [] b = "RETIREMENT_401K" -> Max(90 - age, 40) * ScoreOne
          [] b = "HSA" -> 50 * ScoreOne
          [] b = "HEALTHCARE_FSA" -> 45 * ScoreOne
          [] b = "DEPENDENT_CARE_FSA" -> dep_care
          [] b = "DEPENDENT_CARE" -> dep_care
          [] b = "ACCIDENT" -> 30 * ScoreOne
          [] b = "CRITICAL_ILLNESS" -> 25 * ScoreOne
          [] b = "HOSPITAL_INDEMNITY" -> 20 * ScoreOne
          [] b = "LEGAL_SERVICES" -> 15 * ScoreOne
          [] b = "IDENTITY_THEFT" -> 25 * ScoreOne
          [] b = "PET_INSURANCE" -> 20 * ScoreOne
          [] b = "COMMUTER_BENEFITS" -> 30 * ScoreOne
          [] b = "SUPPLEMENTAL_LIFE" -> life
          [] b = "MENTAL_HEALTH_STIPEND" -> (IF age < 35 THEN 70 ELSE 55) * ScoreOne
          [] b = "PAWTERNITY_LEAVE" -> 35 * ScoreOne
          [] b = "SABBATICAL" -> (IF 30 <= age /\ age <= 50 THEN 60 ELSE 40) * ScoreOne
          [] b = "FERTILITY_SUPPORT" -> (IF 25 <= age /\ age <= 40 THEN 65 ELSE 20) * ScoreOne
          [] b = "MENOPAUSE_SUPPORT" -> (IF age >= 40 THEN 55 ELSE 10) * ScoreOne
          [] b = "STUDENT_LOAN_REPAY" -> (IF age < 35 THEN 75 ELSE IF age < 45 THEN 45 ELSE 15) * ScoreOne
          [] b = "EMERGENCY_SAVINGS_MATCH" -> 65 * ScoreOne
          [] b = "FINANCIAL_COACHING" -> (IF age < 40 THEN 60 ELSE 45) * ScoreOne
          [] b = "CRYPTO_STOCK_BENEFITS" -> (IF age < 40 THEN 55 ELSE 30) * ScoreOne
          [] b = "UNLIMITED_LIFE_DAYS" -> 70 * ScoreOne
          [] b = "REMOTE_WORK_STIPEND" -> 65 * ScoreOne
          [] b = "COWORKING_MEMBERSHIP" -> 45 * ScoreOne
          [] b = "WORKCATION_POLICY" -> (IF age < 40 THEN 60 ELSE 40) * ScoreOne
          [] b = "LEARNING_STIPEND" -> (IF age < 45 THEN 75 ELSE 55) * ScoreOne
          [] b = "SIDE_PROJECT_SUPPORT" -> (IF age < 40 THEN 60 ELSE 35) * ScoreOne
          [] b = "LANGUAGE_LEARNING" -> 45 * ScoreOne
          [] b = "VOLUNTEER_TIME_OFF" -> 50 * ScoreOne
          [] b = "DONATION_MATCHING" -> 45 * ScoreOne
          [] b = "SOCIAL_IMPACT_PROJECTS" -> (IF age < 40 THEN 60 ELSE 45) * ScoreOne]

\* adjusted[b] = min(adjusted[b] + delta, 100)
Bump(scores, b, delta) == [scores EXCEPT ![b] = Min(@ + delta * ScoreOne, 100 * ScoreOne)]

\* the rules of adjust_priors_with_financials, applied in source order
adjust_priors_with_financials(priors, f) ==
  LET income == f.annual_income
      \* savings / (income / 12) > n  and  debt / income > x, cross-multiplied (income > 0)
      SavingsRateAbove(n) == income > 0 /\ f.savings * 12 > n * income
      SavingsRateBelow(n) == IF income > 0 THEN f.savings * 12 < n * income ELSE 0 < n
      DebtToIncomeAbove(tenths) == income > 0 /\ f.total_debt * 10 > tenths * income
      s1 == IF income > 120000
            THEN Bump(Bump(priors, "LIFE", 10), "DISABILITY", 10) ELSE priors
      s2 == IF SavingsRateAbove(3)
            THEN [Bump(s1, "HSA", 20) EXCEPT !["MEDICAL"] = Max(@ - 10 * ScoreOne, 30 * ScoreOne)]
            ELSE s1
      s3 == IF DebtToIncomeAbove(4)
            THEN Bump(Bump(s2, "DISABILITY", 15), "LIFE", 15) ELSE s2
      s4 == IF f.healthcare_spend > 500
            THEN Bump(Bump(s3, "MEDICAL", 15), "HEALTHCARE_FSA", 20) ELSE s3
      s5 == IF f.investment_accounts > 50000
            THEN Bump(Bump(s4, "RETIREMENT_401K", 15), "HSA", 10) ELSE s4
      s6 == IF DebtToIncomeAbove(3)
            THEN Bump(Bump(Bump(s5, "STUDENT_LOAN_REPAY", 25), "FINANCIAL_COACHING", 20),
                      "EMERGENCY_SAVINGS_MATCH", 15)
            ELSE s5
      s7 == IF SavingsRateBelow(1)
            THEN Bump(Bump(s6, "EMERGENCY_SAVINGS_MATCH", 30), "FINANCIAL_COACHING", 25) ELSE s6
      s8 == IF income > 120000
            THEN Bump(Bump(Bump(Bump(s7, "MENTAL_HEALTH_STIPEND", 15), "SABBATICAL", 10),
                           "LEARNING_STIPEND", 15), "WORKCATION_POLICY", 10)
            ELSE s7
      s9 == IF SavingsRateAbove(3) /\ f.investment_accounts > 30000
            THEN Bump(s8, "CRYPTO_STOCK_BENEFITS", 20) ELSE s8
  IN  s9

-----------------------------------------------------------------------------
(* Entropy, simulated answers and information gain *)

\* one benefit's term of the entropy sum: zero unless 0 < p < 1
EntropyTerm(score) ==
  IF score > 0 /\ score < 100 * ScoreOne THEN BinaryEntropy(score) ELSE 0

\* the sum over benefit_scores.values(), before normalisation
EntropySum(scores) ==
  LET Sum[i \in 0..Len(PriorOrder)] ==
        IF i = 0 THEN 0 ELSE Sum[i - 1] + EntropyTerm(scores[PriorOrder[i]])
  IN  Sum[Len(PriorOrder)]

\* norm = log2(N) + 0.2 with N = len(BenefitType), in units of 1/One
EntropyNorm == Log2Fix(Len(BenefitType)) + One \div 5

\* entropy / norm, in units of 1/One
Normalize(entropy) == (entropy * 1024) \div (EntropyNorm \div 16)

calculate_entropy(scores) == Normalize(EntropySum(scores))

\* a correlation map is the sequence of its (benefit, correlation) items
Correlations(question, choice) ==
  IF choice = "A" THEN question.correlations_a ELSE question.correlations_b

HasKey(items, b) == \E i \in 1..Len(items) : items[i][1] = b

Lookup(items, b) == items[CHOOSE i \in 1..Len(items) : items[i][1] = b][2]

\* for benefit, correlation in correlations.items():
\*     scores[benefit] = clip(scores[benefit] + correlation * weight, 0, 100)
\* with weight in units of 1/10
ApplyCorrelations(scores, correlations, weight10) ==
  LET Applied[i \in 0..Len(correlations)] ==
        IF i = 0 THEN scores
        ELSE [Applied[i - 1] EXCEPT
                ![correlations[i][1]] = Clip(@ + correlations[i][2] * weight10)]
  IN  Applied[Len(correlations)]

SimWeight == 11

\* simulate_answer with twice the correlation weight
simulate_answer_doubled(current_scores, question, choice) ==
  ApplyCorrelations(current_scores, Correlations(question, choice), 2 * SimWeight * 10)

simulate_answer(current_scores, question, choice) ==
  ApplyCorrelations(current_scores, Correlations(question, choice), SimWeight * 10)

IGOne == 2 * One * 1000

InHistory(history, id) == \E k \in 1..Len(history) : history[k] = id

\* {**correlations_a, **correlations_b}: the keys of side A then the new keys of
\* side B; side B's value wins on a shared key
MergeCorrelations(a, b) ==
  [i \in 1..Len(a) |-> << a[i][1], IF HasKey(b, a[i][1]) THEN Lookup(b, a[i][1]) ELSE a[i][2] >>]
  \o SelectSeq(b, LAMBDA p : ~HasKey(a, p[1]))

\* 1000 * relevance_multiplier = 1000 * (1 + min(relevance_score, 2.0))
RelevanceMultiplier(question, current_scores) ==
  LET \* 1 - |score - 50| / 50, in units of 1/50000
      uncertainty(b) == 50 * ScoreOne - Abs(current_scores[b] - 50 * ScoreOne)
      all_correlations == MergeCorrelations(question.correlations_a, question.correlations_b)
      \* sum of |correlation| * uncertainty over the uncertain benefits
      \* (uncertainty > 0.3) the question correlates with, in units of 1/(100 * 50000)
      Relevance[i \in 0..Len(all_correlations)] ==
        IF i = 0 THEN 0
        ELSE LET u == uncertainty(all_correlations[i][1])
             IN  Relevance[i - 1]
                 + (IF u * 10 > 3 * 50 * ScoreOne
                    THEN Abs(all_correlations[i][2]) * u ELSE 0)
      relevance_score == Relevance[Len(all_correlations)] \div (5 * ScoreOne)
  IN  1000 + Min(relevance_score, 2000)

\* calculate_information_gain without the floor at zero
calculate_information_gain_unfloored(question, current_scores, history) ==
  IF InHistory(history, question.id) THEN 0
  ELSE (2 * calculate_entropy(current_scores)
        - (calculate_entropy(simulate_answer(current_scores, question, "A"))
           + calculate_entropy(simulate_answer(current_scores, question, "B"))))
       * RelevanceMultiplier(question, current_scores)

\* expected information gain weighted by relevance, in units of 1/IGOne
calculate_information_gain(question, current_scores, history) ==
  IF InHistory(history, question.id) THEN 0
  ELSE
    LET current_entropy == calculate_entropy(current_scores)
        entropy_if_a == calculate_entropy(simulate_answer(current_scores, question, "A"))
        entropy_if_b == calculate_entropy(simulate_answer(current_scores, question, "B"))
        \* 2 * (current_entropy - (0.5 * entropy_if_a + 0.5 * entropy_if_b))
        ig2 == 2 * current_entropy - (entropy_if_a + entropy_if_b)
    IN  Max(ig2 * RelevanceMultiplier(question, current_scores), 0)

\* calculate_entropy(simulate_answer(current_scores, question, choice)) computed
\* from current_sum = EntropySum(current_scores): the simulated map differs from the
\* current one on the benefits of the answer's correlation map only
SimulatedEntropy(current_scores, current_sum, question, choice) ==
  LET correlations == Correlations(question, choice)
      Delta[i \in 0..Len(correlations)] ==
        IF i = 0 THEN 0
        ELSE LET old == current_scores[correlations[i][1]]
             IN  Delta[i - 1]
                 + EntropyTerm(Clip(old + correlations[i][2] * SimWeight * 10))
                 - EntropyTerm(old)
  IN  Normalize(current_sum + Delta[Len(correlations)])

\* calculate_information_gain for a question that is not in the history, with the
\* entropy sum of current_scores computed once by the caller's loop
InformationGainFrom(question, current_scores, current_sum) ==
  LET ig2 == 2 * Normalize(current_sum)
             - (SimulatedEntropy(current_scores, current_sum, question, "A")
                + SimulatedEntropy(current_scores, current_sum, question, "B"))
  IN  Max(ig2 * RelevanceMultiplier(question, current_scores), 0)

\* InformationGainFrom is calculate_information_gain for every question that is not in
\* the history (an invariant of every specification below)
InformationGainAgrees ==
  \A i \in QIndex :
    \/ InHistory(question_history, QuestionBank[i].id)
    \/ calculate_information_gain(QuestionBank[i], benefit_scores, question_history)
         = InformationGainFrom(QuestionBank[i], benefit_scores, EntropySum(benefit_scores))

-----------------------------------------------------------------------------
(* AdaptiveQuestionnaireEngine *)

min_questions == 7

max_questions == 10

\* every question is skipped
skip_every_question(d, id) == TRUE

\* no question is skipped
skip_no_question(d, id) == FALSE

\* demographic applicability rules
should_skip_question(d, id) ==
  \/ id \in {"Q26_family_size", "Q5_family_priorities"} /\ d.num_children > 0
  \/ id \in {"Q11_childcare", "Q12_kids_activities", "Q39_orthodontics"} /\ d.num_children = 0
  \/ id \in {"Q28_elderly_parents", "Q41_aging_parents_care"} /\ d.age < 30
  \/ id \in {"Q40_retirement_age"} /\ d.age < 45

\* should_stop without the minimum-question check
should_stop_without_minimum(scores, history, eig) ==
  LET num_questions == Len(history)
      recent == SubSeq(history, num_questions - 2, num_questions)
      recent_ig == eig[recent[1]] + eig[recent[2]] + eig[recent[3]]
  IN  IF num_questions >= max_questions THEN TRUE
      ELSE IF Len(history) >= Len(QuestionBank) THEN TRUE
      ELSE IF calculate_entropy(scores) * 100 < 5 * One THEN TRUE
      ELSE IF num_questions >= 3 /\ recent_ig * 4 < 3 * IGOne THEN TRUE
      ELSE FALSE

\* should_stop without the maximum-question check
should_stop_without_maximum(scores, history, eig) ==
  LET num_questions == Len(history)
      recent == SubSeq(history, num_questions - 2, num_questions)
      recent_ig == eig[recent[1]] + eig[recent[2]] + eig[recent[3]]
  IN  IF num_questions < min_questions THEN FALSE
      ELSE IF Len(history) >= Len(QuestionBank) THEN TRUE
      ELSE IF calculate_entropy(scores) * 100 < 5 * One THEN TRUE
      ELSE IF num_questions >= 3 /\ recent_ig * 4 < 3 * IGOne THEN TRUE
      ELSE FALSE

should_stop(scores, history, eig) ==
  LET num_questions == Len(history)
      recent == SubSeq(history, num_questions - 2, num_questions)
      recent_ig == eig[recent[1]] + eig[recent[2]] + eig[recent[3]]
  IN  IF num_questions < min_questions THEN FALSE
      ELSE IF num_questions >= max_questions THEN TRUE
      ELSE IF Len(history) >= Len(QuestionBank) THEN TRUE
      \* current_entropy < entropy_threshold (0.05)
      ELSE IF calculate_entropy(scores) * 100 < 5 * One THEN TRUE
      \* sum(expected_ig of the last 3 questions asked) / 3 < 0.25
      ELSE IF num_questions >= 3 /\ recent_ig * 4 < 3 * IGOne THEN TRUE
      ELSE FALSE

\* question_igs without the filter on the questions already asked
question_igs_unfiltered(d, scores, history) ==
  LET current_sum == EntropySum(scores)
      candidates ==
        [i \in QIndex |->
          << i, IF should_skip_question(d, QuestionBank[i].id)
                THEN -1
                ELSE InformationGainFrom(QuestionBank[i], scores, current_sum) >>]
  IN  SelectSeq(candidates, LAMBDA p : p[2] >= 0)

\* question_igs: the <<bank index, ig>> pairs of the unasked, applicable questions,
\* in bank order (an information gain is never negative, so -1 marks a skipped question)
question_igs(d, scores, history) ==
  LET current_sum == EntropySum(scores)
      candidates ==
        [i \in QIndex |->
          << i, IF InHistory(history, QuestionBank[i].id)
                   \/ should_skip_question(d, QuestionBank[i].id)
                THEN -1
                ELSE InformationGainFrom(QuestionBank[i], scores, current_sum) >>]
  IN  SelectSeq(candidates, LAMBDA p : p[2] >= 0)

\* the last pair holding the largest ig
LastMax(pairs) ==
  pairs[CHOOSE k \in 1..Len(pairs) :
          \A j \in 1..Len(pairs) :
            pairs[j][2] < pairs[k][2] \/ (pairs[j][2] = pairs[k][2] /\ k >= j)]

\* the first pair, whatever its ig
FirstPair(pairs) == pairs[1]

\* max(question_igs, key=ig): the first pair holding the largest ig
FirstMax(pairs) ==
  pairs[CHOOSE k \in 1..Len(pairs) :
          \A j \in 1..Len(pairs) :
            pairs[j][2] < pairs[k][2] \/ (pairs[j][2] = pairs[k][2] /\ k <= j)]

\* the selected question and the expected_ig stored on it
Selected(best) == << QuestionBank[best[1]].id, best[2] >>

SelectFrom(igs) == IF Len(igs) = 0 THEN << None, 0 >> ELSE Selected(FirstMax(igs))

\* the value select_next_question returns: <<question id or None, its ig>>
select_next_question(d, scores, history, eig) ==
  IF should_stop(scores, history, eig) THEN << None, 0 >>
  ELSE SelectFrom(question_igs(d, scores, history))

BaseWeight == 11

\* process_answer with the base weight alone, whatever the number of answers on the log
process_answer_scores_unweighted(scores, question, choice, k) ==
  ApplyCorrelations(scores, Correlations(question, choice), 10 * BaseWeight)

\* the score map after process_answer(question, choice) with k answers on the log:
\* confidence_weight = 1.0 + k * 0.1, weight = confidence_weight * 11.0
process_answer_scores(scores, question, choice, k) ==
  ApplyCorrelations(scores, Correlations(question, choice), (10 + k) * BaseWeight)

\* round(score, 1) in tenths of a point; a score on a half rounds to even
RoundTenths(score) ==
  LET q == score \div 100
      r == score % 100
  IN  IF r < 50 THEN q
      ELSE IF r > 50 THEN q + 1
      ELSE IF q % 2 = 0 THEN q ELSE q + 1

\* the priority with the critical tier starting above 95 instead of at 95
PriorityAbove95(score) ==
  IF score > 95 * ScoreOne THEN "CRITICAL"
  ELSE IF score >= 80 * ScoreOne THEN "RECOMMENDED"
  ELSE IF score >= 55 * ScoreOne THEN "OPTIONAL"
  ELSE "NOT_NEEDED"

Priority(score) ==
  IF score >= 95 * ScoreOne THEN "CRITICAL"
  ELSE IF score >= 80 * ScoreOne THEN "RECOMMENDED"
  ELSE IF score >= 55 * ScoreOne THEN "OPTIONAL"
  ELSE "NOT_NEEDED"

\* the recommendations left in the order they were built in
Unsorted(recs) == recs

\* recommendations.sort(key=score, reverse=True): stable, so equal scores keep their order
SortByScore(recs) ==
  LET RECURSIVE Insert(_, _)
      Insert(r, sorted) ==
        IF sorted = <<>> THEN << r >>
        ELSE IF Head(sorted).score >= r.score
             THEN << Head(sorted) >> \o Insert(r, Tail(sorted))
             ELSE << r >> \o sorted
      Sorted[i \in 0..Len(recs)] ==
        IF i = 0 THEN <<>> ELSE Insert(recs[i], Sorted[i - 1])
  IN  Sorted[Len(recs)]

generate_recommendations(scores) ==
  SortByScore([i \in 1..Len(PriorOrder) |->
    [benefit_type |-> PriorOrder[i],
     score |-> RoundTenths(scores[PriorOrder[i]]),
     priority |-> Priority(scores[PriorOrder[i]])]])

-----------------------------------------------------------------------------
(* Sessions *)

\* a session takes at most MaxAnswers answers
MaxAnswers == 10

\* at most MaxOffScript answers of a session are for questions the caller was not asked
MaxOffScript == 1

\* the first FreeChoices answers of a session take either side, the later ones side A
FreeChoices == 2

\* the (question id, side) answers a caller submits without having been asked
OffScript == { << "Q1_risk_behavior", "B" >> }

Profile(age, marital, children, income, debt, savings, invest, health) ==
  [age |-> age, marital_status |-> marital, num_children |-> children,
   annual_income |-> income, total_debt |-> debt, savings |-> savings,
   investment_accounts |-> invest, healthcare_spend |-> health]

Profiles ==
  { Profile(35, "married", 2, 120000, 250000, 25000, 45000, 350),
    Profile(25, "single", 0, 45000, 15000, 5000, 0, 0) }

NoSession == << >>

Void == [kind |-> "void", question |-> None, recommendations |-> <<>>]

Demographics(p) ==
  [age |-> p.age, marital_status |-> p.marital_status, num_children |-> p.num_children]

Financials(p) ==
  [annual_income |-> p.annual_income, total_debt |-> p.total_debt, savings |-> p.savings,
   investment_accounts |-> p.investment_accounts, healthcare_spend |-> p.healthcare_spend]

\* AdaptiveQuestionnaireEngine(d, f): the fields of the new session
NewEngine(d, f) ==
  [demographics |-> d,
   financials |-> f,
   benefit_scores |-> adjust_priors_with_financials(get_demographic_priors(d), f),
   question_history |-> << >>,
   answers |-> << >>,
   expected_ig |-> [id \in QuestionIds |-> (Question(id).expected_ig * IGOne) \div 10],
   ret |-> Void]

NewSession(p) == NewEngine(Demographics(p), Financials(p))

\* the session variables hold the fields of s
Holds(s) ==
  /\ demographics = s.demographics
  /\ financials = s.financials
  /\ benefit_scores = s.benefit_scores
  /\ question_history = s.question_history
  /\ answers = s.answers
  /\ expected_ig = s.expected_ig
  /\ ret = s.ret

Init ==
  /\ \E p \in Profiles : Holds(NewSession(p))
  /\ replay = NoSession

OffScriptIds == {a[1] : a \in OffScript}

OffScriptCount ==
  Cardinality({k \in 1..Len(question_history) : question_history[k] \in OffScriptIds})

\* the answers a caller submits: one to the question it was just asked, or an
\* off-script one
Submittable(id, choice) ==
  /\ Len(answers) < MaxAnswers
  /\ \/ /\ ret.kind = "question"
        /\ id = ret.question
        /\ choice = "A" \/ Len(answers) < FreeChoices
     \/ /\ << id, choice >> \in OffScript
        /\ OffScriptCount < MaxOffScript

\* the caller's view of a select_next_question result r, and the expected_ig it stored
Returned(r) ==
  IF r[1] = None THEN [kind |-> "none", question |-> None, recommendations |-> << >>]
  ELSE [kind |-> "question", question |-> r[1], recommendations |-> << >>]

Stored(eig, r) == IF r[1] = None THEN eig ELSE [eig EXCEPT ![r[1]] = r[2]]

\* select_next_question with simulate_answer writing into the live score map instead
\* of a copy
SelectNextQuestionInPlace ==
  /\ \E r \in {select_next_question(demographics, benefit_scores, question_history,
                                     expected_ig)} :
       /\ ret' = Returned(r)
       /\ expected_ig' = Stored(expected_ig, r)
       /\ benefit_scores' = IF r[1] = None THEN benefit_scores
                            ELSE simulate_answer(benefit_scores, Question(r[1]), "A")
  /\ UNCHANGED << demographics, financials, question_history, answers >>

SelectNextQuestion ==
  /\ \E r \in {select_next_question(demographics, benefit_scores, question_history,
                                     expected_ig)} :
       /\ ret' = Returned(r)
       /\ expected_ig' = Stored(expected_ig, r)
  /\ UNCHANGED << demographics, financials, benefit_scores, question_history, answers >>

ProcessAnswer(id, choice) ==
  /\ Submittable(id, choice)
  /\ benefit_scores' = process_answer_scores(benefit_scores, Question(id), choice, Len(answers))
  /\ answers' = Append(answers, [question_id |-> id, choice |-> choice,
                                 confidence_weight |-> 10 + Len(answers)])
  /\ question_history' = Append(question_history, id)
  /\ ret' = Void
  /\ UNCHANGED << demographics, financials, expected_ig >>

GenerateRecommendations ==
  /\ ret' = [kind |-> "recommendations", question |-> None,
             recommendations |-> generate_recommendations(benefit_scores)]
  /\ UNCHANGED << demographics, financials, benefit_scores, question_history,
                  answers, expected_ig >>

\* score maps a caller writes into a fresh session: every benefit settled at 100
\* (entropy 0), and the same but for six benefits on and just below the three
\* priority thresholds and one benefit near 0
SettledScores == [b \in Benefits |-> 100 * ScoreOne]

ThresholdScores ==
  [b \in Benefits |->
     CASE b = "LIFE" -> 95000
       [] b = "DISABILITY" -> 94999
       [] b = "MEDICAL" -> 80000
       [] b = "DENTAL" -> 79999
       [] b = "VISION" -> 55000
       [] b = "HSA" -> 54999
       [] b = "ACCIDENT" -> 3000
       [] OTHER -> 100 * ScoreOne]

AssignedScores == {SettledScores, ThresholdScores}

\* engine.benefit_scores[benefit] = score, for every benefit, on a session no
\* operation was called on yet
AssignScores(scores) ==
  /\ Len(answers) = 0
  /\ ret = Void
  /\ benefit_scores' = scores
  /\ ret' = Void
  /\ UNCHANGED << demographics, financials, question_history, answers, expected_ig >>

Next ==
  \/ SelectNextQuestion /\ UNCHANGED replay
  \/ \E id \in QuestionIds, choice \in {"A", "B"} :
       ProcessAnswer(id, choice) /\ UNCHANGED replay
  \/ GenerateRecommendations /\ UNCHANGED replay
  \/ \E scores \in AssignedScores : AssignScores(scores) /\ UNCHANGED replay

Spec == Init /\ [][Next]_vars

-----------------------------------------------------------------------------
(* The web application (src/app.py) over one session *)

\* the profiles posted to /api/start; the age is int(data['age']) and is not checked
AppProfiles ==
  Profiles \cup { Profile(-100, "single", 0, 50000, 0, 10000, 0, 0) }

UnknownId == "Q0_unknown"

Error == [kind |-> "error", question |-> None, recommendations |-> << >>]

\* answers of the log that repeat an earlier question
RepeatCount ==
  Len(question_history) - Cardinality({question_history[k] : k \in 1..Len(question_history)})

\* the answers a client posts: one to the question it was sent, one more to the
\* question it answered last, or one for an id the catalog does not hold
Postable(question_id, choice) ==
  \/ /\ ret.kind = "question"
     /\ question_id = ret.question
     /\ choice = "A" \/ Len(answers) < FreeChoices
  \/ /\ Len(question_history) > 0
     /\ question_id = question_history[Len(question_history)]
     /\ choice = "A"
     /\ RepeatCount < MaxOffScript
  \/ /\ question_id = UnknownId
     /\ choice = "A"

InitApp ==
  /\ demographics = NoSession
  /\ financials = NoSession
  /\ benefit_scores = << >>
  /\ question_history = << >>
  /\ answers = << >>
  /\ expected_ig = << >>
  /\ ret = Void
  /\ replay = NoSession

\* the response to a select_next_question result r; question.id of None raises
Response(r) ==
  IF r[1] = None THEN Error
  ELSE [kind |-> "question", question |-> r[1], recommendations |-> << >>]

\* POST /api/start: builds the engine and returns its first question
StartQuestionnaire(p) ==
  /\ demographics = NoSession
  /\ \E s \in {NewSession(p)} :
       \E r \in {select_next_question(s.demographics, s.benefit_scores,
                                       s.question_history, s.expected_ig)} :
         /\ demographics' = s.demographics
         /\ financials' = s.financials
         /\ benefit_scores' = s.benefit_scores
         /\ question_history' = s.question_history
         /\ answers' = s.answers
         /\ expected_ig' = Stored(s.expected_ig, r)
         /\ ret' = Response(r)
  /\ UNCHANGED replay

\* POST /api/answer
SubmitAnswer(question_id, choice) ==
  /\ Len(answers) < MaxAnswers
  /\ Postable(question_id, choice)
  /\ IF demographics = NoSession \/ question_id \notin QuestionIds
     THEN \* 'Invalid session', or next() finds no question of that id and raises
          /\ ret' = Error
          /\ UNCHANGED << demographics, financials, benefit_scores, question_history,
                          answers, expected_ig >>
     ELSE \E scores \in {process_answer_scores(benefit_scores, Question(question_id),
                                                choice, Len(answers))} :
            /\ benefit_scores' = scores
            /\ question_history' = Append(question_history, question_id)
            /\ answers' = Append(answers, [question_id |-> question_id, choice |-> choice,
                                           confidence_weight |-> 10 + Len(answers)])
            /\ IF should_stop(scores, Append(question_history, question_id), expected_ig)
               THEN \* complete: the ten highest recommendations
                    /\ ret' = [kind |-> "complete", question |-> None,
                               recommendations |->
                                 SubSeq(generate_recommendations(scores), 1, 10)]
                    /\ UNCHANGED expected_ig
               ELSE \E r \in {select_next_question(demographics, scores,
                                   Append(question_history, question_id), expected_ig)} :
                      /\ ret' = Response(r)
                      /\ expected_ig' = Stored(expected_ig, r)
            /\ UNCHANGED << demographics, financials >>
  /\ UNCHANGED replay

NextApp ==
  \/ \E p \in AppProfiles : StartQuestionnaire(p)
  \/ \E question_id \in QuestionIds \cup {UnknownId}, choice \in {"A", "B"} :
       SubmitAnswer(question_id, choice)

SpecApp == InitApp /\ [][NextApp]_vars

-----------------------------------------------------------------------------
(* A second session of the same profile, given the first session's answers *)

\* process_answer(question, choice) on the engine s, for the answer a of a log
Processed(s, a) ==
  [s EXCEPT !.benefit_scores = process_answer_scores(@, Question(a.question_id), a.choice,
                                                     Len(s.answers)),
            !.answers = Append(@, [question_id |-> a.question_id, choice |-> a.choice,
                                   confidence_weight |-> 10 + Len(s.answers)]),
            !.question_history = Append(@, a.question_id),
            !.ret = Void]

\* a new engine of the profile (d, f) that is given the answers of log in order
ReplayOf(d, f, log) ==
  LET Fed[i \in 0..Len(log)] ==
        IF i = 0 THEN NewEngine(d, f) ELSE Processed(Fed[i - 1], log[i])
  IN  Fed[Len(log)]

Replay ==
  /\ replay = NoSession
  /\ replay' = ReplayOf(demographics, financials, answers)
  /\ UNCHANGED << demographics, financials, benefit_scores, question_history, answers,
                  expected_ig, ret >>

\* select_next_question() of the second session
ReplaySelectNextQuestion ==
  /\ replay # NoSession
  /\ \E r \in {select_next_question(replay.demographics, replay.benefit_scores,
                                     replay.question_history, replay.expected_ig)} :
       replay' = [replay EXCEPT !.ret = Returned(r), !.expected_ig = Stored(@, r)]
  /\ UNCHANGED << demographics, financials, benefit_scores, question_history, answers,
                  expected_ig, ret >>

NextReplay ==
  \/ SelectNextQuestion /\ UNCHANGED replay
  \/ \E id \in QuestionIds, choice \in {"A", "B"} :
       replay = NoSession /\ ProcessAnswer(id, choice) /\ UNCHANGED replay
  \/ Replay
  \/ ReplaySelectNextQuestion

SpecReplay == Init /\ [][NextReplay]_vars

-----------------------------------------------------------------------------
(* Coverage details and rationale of a recommendation *)

\* round(x) of x = n / unit to an integer: a value on a half rounds to even
RoundHalfEven(n, unit) ==
  LET q == n \div unit
      r == n % unit
  IN  IF 2 * r < unit THEN q
      ELSE IF 2 * r > unit THEN q + 1
      ELSE IF q % 2 = 0 THEN q ELSE q + 1

\* _generate_benefit_details for HSA: max_contribution
hsa_max_contribution(d) == IF d.num_children > 0 THEN 8300 ELSE 4150

\* _generate_benefit_details for HSA: details["recommended_annual_contribution"] =
\* round(min(max_contribution, annual_income * 0.05), -2), in dollars
hsa_recommended_annual_contribution(d, f) ==
  \* recommended in twentieths of a dollar; a hundred dollars is 2000 of them
  100 * RoundHalfEven(Min(hsa_max_contribution(d) * 20, f.annual_income), 2000)

\* _generate_benefit_details for RETIREMENT_401K: round(min(15, max(6, score / 6))),
\* the number printed in details["recommended_contribution_rate"]
recommended_contribution_rate(score) ==
  \* recommended_rate in units of 1/(6 * ScoreOne)
  RoundHalfEven(Min(15 * 6 * ScoreOne, Max(6 * 6 * ScoreOne, score)), 6 * ScoreOne)

\* _generate_rationale: the template of the sentence it returns
generate_rationale(benefit, score, priority) ==
  IF benefit = "LIFE" /\ priority = "critical" THEN "life"
  ELSE IF benefit = "DISABILITY" /\ priority \in {"critical", "recommended"} THEN "disability"
  ELSE IF benefit = "MEDICAL" /\ score >= 75 * ScoreOne THEN "medical"
  ELSE IF benefit = "HSA" /\ score >= 55 * ScoreOne THEN "hsa"
  ELSE IF benefit = "PET_INSURANCE" /\ priority = "not_needed" THEN "pet"
  ELSE "generic"

\* the rationale generate_recommendations puts on the recommendation of a benefit
RationaleOf(scores, benefit) ==
  generate_rationale(benefit, scores[benefit], Priority(scores[benefit]))

-----------------------------------------------------------------------------
(* Sessions over a grid of profiles: construction, the first question, one answer *)

GridAges == {0, 35, 80}

GridIncomes == {0, 120000, 150000}

GridDebts == {0, 250000}

GridSavings == {0, 25000}

ProfileGrid ==
  { Profile(age, marital, children, income, debt, savings, 0, 0) :
      age \in GridAges, marital \in {"single", "married"}, children \in {0, 2},
      income \in GridIncomes, debt \in GridDebts, savings \in GridSavings }

\* the questions whose text is about the user's children or kids
ChildrenQuestions ==
  { "Q5_family_priorities", "Q11_childcare", "Q12_kids_activities",
    "Q26_family_size", "Q49_family_planning" }

\* the profile is known, the engine is not yet constructed
Unbuilt == [kind |-> "profile", question |-> None, recommendations |-> << >>]

\* the condition under which savings_rate and debt_to_income divide by annual_income
\* a division by annual_income that is not conditional
DividesAlways(f) == TRUE

DividesByIncome(f) == f.annual_income > 0

\* ZeroDivisionError in adjust_priors_with_financials
ZeroDivisionError(f) == DividesByIncome(f) /\ f.annual_income = 0

InitProfiles ==
  /\ \E p \in ProfileGrid :
       /\ demographics = Demographics(p)
       /\ financials = Financials(p)
  /\ benefit_scores = << >>
  /\ question_history = << >>
  /\ answers = << >>
  /\ expected_ig = << >>
  /\ ret = Unbuilt
  /\ replay = NoSession

\* AdaptiveQuestionnaireEngine(demographics, financials)
Construct ==
  /\ ret = Unbuilt
  /\ IF ZeroDivisionError(financials)
     THEN /\ ret' = Error
          /\ UNCHANGED << demographics, financials, benefit_scores, question_history,
                          answers, expected_ig >>
     ELSE \E s \in {NewEngine(demographics, financials)} :
            /\ benefit_scores' = s.benefit_scores
            /\ question_history' = s.question_history
            /\ answers' = s.answers
            /\ expected_ig' = s.expected_ig
            /\ ret' = s.ret
            /\ UNCHANGED << demographics, financials >>

\* the engine exists
Built == benefit_scores # << >>

\* process_answer(question, choice) as the first answer of a session: for the
\* question just selected, or for a question about children taken from the bank
AnswerFirst(id, choice) ==
  /\ Built
  /\ Len(answers) = 0
  /\ \/ ret.kind = "question" /\ id = ret.question
     \/ id \in ChildrenQuestions /\ choice = "A"
  /\ \E s \in {Processed([benefit_scores |-> benefit_scores, answers |-> answers,
                          question_history |-> question_history, ret |-> ret],
                         [question_id |-> id, choice |-> choice])} :
       /\ benefit_scores' = s.benefit_scores
       /\ answers' = s.answers
       /\ question_history' = s.question_history
       /\ ret' = s.ret
  /\ UNCHANGED << demographics, financials, expected_ig >>

NextProfiles ==
  \/ Construct /\ UNCHANGED replay
  \/ Built /\ SelectNextQuestion /\ UNCHANGED replay
  \/ \E id \in QuestionIds, choice \in {"A", "B"} :
       AnswerFirst(id, choice) /\ UNCHANGED replay
  \/ Built /\ GenerateRecommendations /\ UNCHANGED replay

SpecProfiles == InitProfiles /\ [][NextProfiles]_vars

-----------------------------------------------------------------------------
(* The questionnaire loop: select a question, answer it with either side *)

LoopProfiles ==
  Profiles \cup { Profile(25, "single", 0, 0, 0, 0, 0, 0),
                  Profile(80, "married", 2, 150000, 250000, 0, 0, 0),
                  Profile(50, "married", 0, 200000, 0, 100000, 60000, 600) }

InitLoop ==
  /\ \E p \in LoopProfiles : Holds(NewSession(p))
  /\ replay = NoSession

\* question = engine.select_next_question(), at the top of the loop
LoopSelect ==
  /\ ret = Void
  /\ SelectNextQuestion

\* engine.process_answer(question, choice) for the question just selected
LoopAnswer(choice) ==
  /\ ret.kind = "question"
  /\ \E s \in {Processed([benefit_scores |-> benefit_scores, answers |-> answers,
                          question_history |-> question_history, ret |-> ret],
                         [question_id |-> ret.question, choice |-> choice])} :
       /\ benefit_scores' = s.benefit_scores
       /\ answers' = s.answers
       /\ question_history' = s.question_history
       /\ ret' = s.ret
  /\ UNCHANGED << demographics, financials, expected_ig >>

\* the keys of output["recommendations"]
OutputGroups == {"critical", "recommended", "optional", "not_needed"}

\* for rec in recommendations: output["recommendations"][rec.priority].append(...);
\* a priority that is not a key of the dict raises KeyError
Organize(recs) ==
  IF \E i \in 1..Len(recs) : recs[i].priority \notin OutputGroups
  THEN Error
  ELSE [kind |-> "output", question |-> None, recommendations |-> recs,
        groups |-> [g \in OutputGroups |-> SelectSeq(recs, LAMBDA r : r.priority = g)]]

\* after the loop: recommendations = engine.generate_recommendations(), organized
\* by priority into the returned output
LoopFinish ==
  /\ ret.kind = "none"
  /\ ret' = Organize(generate_recommendations(benefit_scores))
  /\ UNCHANGED << demographics, financials, benefit_scores, question_history, answers,
                  expected_ig >>

NextLoop ==
  \/ LoopSelect /\ UNCHANGED replay
  \/ \E choice \in {"A", "B"} : LoopAnswer(choice) /\ UNCHANGED replay
  \/ LoopFinish /\ UNCHANGED replay

SpecLoop == InitLoop /\ [][NextLoop]_vars

-----------------------------------------------------------------------------
(* Two engines that exist at the same time: the session variables hold the first, *)
(* replay holds the second                                                        *)

\* each of the two engines takes at most PairAnswers answers
PairAnswers == 2

InitPair ==
  /\ \E p \in Profiles : Holds(NewSession(p))
  /\ \E q \in Profiles : replay = NewSession(q)

FirstSelect == SelectNextQuestion

\* the first engine answers the question it was asked with side A
FirstAnswer ==
  /\ ret.kind = "question"
  /\ Len(answers) < PairAnswers
  /\ ProcessAnswer(ret.question, "A")

FirstGenerate == GenerateRecommendations

\* select_next_question of the second engine writing expected_ig into question
\* objects that the first engine's bank holds too
SecondSelectSharedBank ==
  /\ \E r \in {select_next_question(replay.demographics, replay.benefit_scores,
                                     replay.question_history, replay.expected_ig)} :
       /\ replay' = [replay EXCEPT !.ret = Returned(r), !.expected_ig = Stored(@, r)]
       /\ expected_ig' = Stored(expected_ig, r)
  /\ UNCHANGED << demographics, financials, benefit_scores, question_history, answers, ret >>

SecondSelect == ReplaySelectNextQuestion

\* the second engine answers the question it was asked with side B
SecondAnswer ==
  /\ replay.ret.kind = "question"
  /\ Len(replay.answers) < PairAnswers
  /\ replay' = Processed(replay, [question_id |-> replay.ret.question, choice |-> "B"])
  /\ UNCHANGED << demographics, financials, benefit_scores, question_history, answers,
                  expected_ig, ret >>

SecondGenerate ==
  /\ replay' = [replay EXCEPT !.ret =
                  [kind |-> "recommendations", question |-> None,
                   recommendations |-> generate_recommendations(replay.benefit_scores)]]
  /\ UNCHANGED << demographics, financials, benefit_scores, question_history, answers,
                  expected_ig, ret >>

NextPair ==
  \/ FirstSelect /\ UNCHANGED replay
  \/ FirstAnswer /\ UNCHANGED replay
  \/ FirstGenerate /\ UNCHANGED replay
  \/ SecondSelect
  \/ SecondAnswer
  \/ SecondGenerate

SpecPair == InitPair /\ [][NextPair]_vars

-----------------------------------------------------------------------------
(* Properties *)

LastAnswer == answers[Len(answers)]

\* C1: in a session created from a profile with non-negative age and number of
\* children, every value of benefit_scores is within [0, 100], in the initial map and
\* after any sequence of answers
C1_ScoresWithinBounds ==
  (demographics.age >= 0 /\ demographics.num_children >= 0)
    => \A b \in Benefits :
         benefit_scores[b] >= 0 /\ benefit_scores[b] <= 100 * ScoreOne

\* an answer whose negative correlation drove a score down to the lower bound, in a
\* session that also holds a score at the upper bound
C1_ClippedAtBothBounds ==
  /\ Len(answers) > 0
  /\ LET correlations == Correlations(Question(LastAnswer.question_id), LastAnswer.choice)
     IN  \E i \in 1..Len(correlations) :
           correlations[i][2] < 0 /\ benefit_scores[correlations[i][1]] = 0
  /\ \E b \in Benefits : benefit_scores[b] = 100 * ScoreOne

\* what should_stop() and select_next_question() return in the current state
Stopped == should_stop(benefit_scores, question_history, expected_ig)

NextQuestion ==
  select_next_question(demographics, benefit_scores, question_history, expected_ig)[1]

\* 3 * avg_recent_ig of should_stop, in units of 1/IGOne
RecentIG ==
  LET n == Len(question_history)
  IN  expected_ig[question_history[n - 2]] + expected_ig[question_history[n - 1]]
      + expected_ig[question_history[n]]

\* C2: the question select_next_question returns is never one whose id is in
\* question_history
C2_NeverSelectsAnswered ==
  ret.kind = "question" => ~InHistory(question_history, ret.question)

\* a question selected after nine answers, one of them to a question the engine
\* had not selected
C2_SelectedLate ==
  /\ ret.kind = "question"
  /\ Len(question_history) = 9
  /\ OffScriptCount > 0

C4_StopAtMaximum ==
  Len(question_history) >= max_questions =>
    /\ Stopped
    /\ NextQuestion = None
    /\ ret.kind # "question"

\* select_next_question returned None at max_questions answers while the entropy is
\* above its threshold and the last three expected gains average 0.25 or more
C4_StoppedByMaximumOnly ==
  /\ Len(question_history) = max_questions
  /\ ret.kind = "none"
  /\ calculate_entropy(benefit_scores) * 100 >= 5 * One
  /\ RecentIG * 4 >= 3 * IGOne

\* C5: once should_stop() is true it stays true after every later operation
C5_StopIsTerminal == [][Stopped => Stopped']_vars

\* C6: an answer posted for a question id that is already in the answered log, or that
\* the catalog does not hold, fails and leaves the score map and the log as they were
C6_RejectsRepeatedAndUnknown ==
  [][\A question_id \in QuestionIds \cup {UnknownId}, choice \in {"A", "B"} :
       (/\ SubmitAnswer(question_id, choice)
        /\ question_id \notin QuestionIds \/ InHistory(question_history, question_id))
       => /\ ret'.kind = "error"
          /\ benefit_scores' = benefit_scores
          /\ question_history' = question_history
          /\ answers' = answers]_vars

\* C7: no session, and so no score map, exists for a profile of negative age
C7_NegativeAgeRejected == benefit_scores = << >> \/ demographics.age >= 0

\* C8: a second session of the same profile that was given the same answers holds the
\* same score map, yields the same recommendations, and is returned the same question
\* by select_next_question
C8_SameAsReplay ==
  replay # NoSession =>
    /\ replay.benefit_scores = benefit_scores
    /\ generate_recommendations(replay.benefit_scores)
         = generate_recommendations(benefit_scores)
    /\ select_next_question(replay.demographics, replay.benefit_scores,
                            replay.question_history, replay.expected_ig)[1]
         = NextQuestion

Recs == ret.recommendations

\* C9: generate_recommendations returns exactly one recommendation for each member of
\* BenefitType, ordered by recommendation score, non-increasing
C9_OnePerBenefitSorted ==
  ret.kind = "recommendations" =>
    /\ Len(Recs) = Len(BenefitType)
    /\ \A b \in Benefits : Cardinality({i \in 1..Len(Recs) : Recs[i].benefit_type = b}) = 1
    /\ \A i \in 1..(Len(Recs) - 1) : Recs[i].score >= Recs[i + 1].score

\* recommendations generated after seven answers whose order is not the order of the
\* score map and which hold two equal scores
C9_ReorderedWithTies ==
  /\ ret.kind = "recommendations"
  /\ Len(answers) >= min_questions
  /\ \E i \in 1..Len(Recs) : Recs[i].benefit_type # PriorOrder[i]
  /\ \E i \in 1..(Len(Recs) - 1) : Recs[i].score = Recs[i + 1].score

\* C10: a recommendation's priority follows from its benefit's score: critical from 95,
\* recommended from 80 and below 95, optional from 55 and below 80, not needed below 55
C10_PriorityByThreshold ==
  ret.kind = "recommendations" =>
    \A i \in 1..Len(Recs) :
      LET score == benefit_scores[Recs[i].benefit_type]
      IN  Recs[i].priority =
            CASE score >= 95000 -> "CRITICAL"
              [] score >= 80000 /\ score < 95000 -> "RECOMMENDED"
              [] score >= 55000 /\ score < 80000 -> "OPTIONAL"
              [] score < 55000 -> "NOT_NEEDED"

\* recommendations for scores of exactly 95 (critical) and 94.999 (recommended)
C10_AtTheBoundary ==
  /\ ret.kind = "recommendations"
  /\ \E i, j \in 1..Len(Recs) :
       /\ benefit_scores[Recs[i].benefit_type] = 95000
       /\ Recs[i].priority = "CRITICAL"
       /\ benefit_scores[Recs[j].benefit_type] = 94999
       /\ Recs[j].priority = "RECOMMENDED"


\* the debt-to-income ratio of the profile is above 0.4
HighDebt(f) == f.annual_income > 0 /\ f.total_debt * 10 > 4 * f.annual_income

\* the life-insurance prior of the profile that differs only in having no children
\* and no debt
BaselineLife ==
  NewEngine([demographics EXCEPT !.num_children = 0],
            [financials EXCEPT !.total_debt = 0]).benefit_scores["LIFE"]

\* C11: after prior estimation alone (no answers), a profile of age >= 0 with
\* children and a debt-to-income ratio above 0.4 has a life-insurance score strictly
\* above that of the same profile without children and without debt
C11_DependentsAndDebtRaiseLife ==
  (/\ Built
   /\ Len(answers) = 0
   /\ demographics.age >= 0
   /\ demographics.num_children > 0
   /\ HighDebt(financials))
    => benefit_scores["LIFE"] > BaselineLife

\* C12: in a session of a profile with children, process_answer of side A of a
\* question about children whose side-A correlation for life insurance is positive
\* leaves the life-insurance score strictly above its value before the answer
C12_ChildrenAnswerRaisesLife ==
  [][\A id \in ChildrenQuestions :
       (/\ demographics.num_children > 0
        /\ HasKey(Question(id).correlations_a, "LIFE")
        /\ Lookup(Question(id).correlations_a, "LIFE") > 0
        /\ AnswerFirst(id, "A"))
         => benefit_scores'["LIFE"] > benefit_scores["LIFE"]]_vars

ZeroFinancials ==
  financials.annual_income = 0 /\ financials.total_debt = 0 /\ financials.savings = 0

\* C17: for a profile whose annual income, debt and savings are zero, no operation
\* raises (constructing the engine, selecting, answering, generating) and
\* generate_recommendations returns a list with one recommendation per benefit
C17_ZeroFinancialsComplete ==
  ZeroFinancials =>
    /\ ret.kind # "error"
    /\ ret # Unbuilt => Built
    /\ ret.kind = "recommendations" => Len(ret.recommendations) = Cardinality(Benefits)

\* recommendations generated for a zero-financials profile after a question was
\* selected and answered
C17_ZeroFinancialsServed ==
  /\ ZeroFinancials
  /\ Len(answers) = 1
  /\ expected_ig[question_history[1]] # NewEngine(demographics, financials).expected_ig[question_history[1]]
  /\ ret.kind = "recommendations"
  /\ Len(ret.recommendations) > 0

\* C13: the loop "select a question, answer it with either side" ends: a session
\* never holds more than max_questions answers, no question is returned at
\* max_questions answers, and select_next_question returns None only after at
\* least min_questions and at most max_questions answers
C13_LoopEndsWithinLimits ==
  /\ Len(answers) <= max_questions
  /\ Len(answers) >= max_questions => ret.kind # "question"
  /\ ret.kind = "none" =>
       Len(answers) >= min_questions /\ Len(answers) <= max_questions

\* a loop that ended with None after answers on both sides
C13_LoopEnded ==
  /\ ret.kind = "none"
  /\ \E i, j \in 1..Len(answers) : answers[i].choice = "A" /\ answers[j].choice = "B"

\* the bank index of a question id
QPos(id) == CHOOSE i \in QIndex : QuestionBank[i].id = id

\* the information gain calculate_information_gain computes for each bank question
\* in the current state
Gains ==
  LET current_sum == EntropySum(benefit_scores)
  IN  [i \in QIndex |->
         IF InHistory(question_history, QuestionBank[i].id) THEN 0
         ELSE InformationGainFrom(QuestionBank[i], benefit_scores, current_sum)]

Unasked(i) == ~InHistory(question_history, QuestionBank[i].id)

Eligible(i) == ~should_skip_question(demographics, QuestionBank[i].id)

\* the returned question is unasked and eligible, no unasked eligible question has
\* a higher gain, and those with the same gain come later in the bank
BestOf(gains, pos) ==
  /\ Unasked(pos)
  /\ Eligible(pos)
  /\ \A i \in QIndex :
       (Unasked(i) /\ Eligible(i)) =>
         gains[i] < gains[pos] \/ (gains[i] = gains[pos] /\ pos <= i)

\* C14: the question select_next_question returns is unasked and applicable to the
\* demographics, its relevance-weighted information gain is at least that of every
\* other unasked applicable question, and of the questions with the maximum gain it
\* is the first in bank order
C14_SelectsFirstMaximum ==
  ret.kind = "question" => BestOf(Gains, QPos(ret.question))

TiedLater(gains, pos) ==
  \E i \in QIndex : i > pos /\ Unasked(i) /\ Eligible(i) /\ gains[i] = gains[pos]

\* a question returned while a later unasked applicable question has the same gain
C14_TieBrokenByOrder ==
  /\ ret.kind = "question"
  /\ TiedLater(Gains, QPos(ret.question))

MaxOfUnasked(gains, pos) == \A i \in QIndex : Unasked(i) => gains[i] <= gains[pos]

MaxOfUnaskedEligible(gains, pos) ==
  \A i \in QIndex : (Unasked(i) /\ Eligible(i)) => gains[i] <= gains[pos]

SkippedHigher(gains, pos) ==
  \E i \in QIndex : Unasked(i) /\ ~Eligible(i) /\ gains[i] > gains[pos]

C18_HardFilters ==
  ret.kind = "question" =>
    /\ demographics.num_children > 0 =>
         ret.question \notin {"Q26_family_size", "Q5_family_priorities"}
    /\ demographics.num_children = 0 =>
         ret.question \notin {"Q11_childcare", "Q12_kids_activities", "Q39_orthodontics"}
    /\ demographics.age < 30 =>
         ret.question \notin {"Q28_elderly_parents", "Q41_aging_parents_care"}
    /\ demographics.age < 45 => ret.question # "Q40_retirement_age"

\* a user with children was asked another question in a state where
\* Q26_family_size has the highest information gain of all unanswered questions
C18_FilteredAtTheTop ==
  /\ ret.kind = "question"
  /\ demographics.num_children > 0
  /\ ret.question # "Q26_family_size"
  /\ MaxOfUnasked(Gains, QPos("Q26_family_size"))
  /\ Unasked(QPos("Q26_family_size"))

NonNegativeAndZeroIfAsked(gain, asked) == gain >= 0 /\ (asked => gain = 0)

\* C16: for every bank question and the score map of every reachable state,
\* calculate_information_gain is >= 0, and it is 0 for a question whose id is in the
\* question history
C16_GainNeverNegative ==
  \A i \in QIndex :
    NonNegativeAndZeroIfAsked(
      calculate_information_gain(QuestionBank[i], benefit_scores, question_history),
      InHistory(question_history, QuestionBank[i].id))

\* the expected entropy after the question exceeds the current entropy
EntropyWouldRise(question, scores, current_sum) ==
  SimulatedEntropy(scores, current_sum, question, "A")
  + SimulatedEntropy(scores, current_sum, question, "B") > 2 * Normalize(current_sum)

\* after an answer, an unasked question whose simulated answers raise the entropy
\* above the current one
C16_FlooredAtZero ==
  /\ Len(question_history) > 0
  /\ \E i \in QIndex :
       /\ Unasked(i)
       /\ EntropyWouldRise(QuestionBank[i], benefit_scores, EntropySum(benefit_scores))

\* C19: select_next_question (with the calculate_information_gain and
\* simulate_answer calls it makes) leaves benefit_scores, question_history and
\* answers as they were, and of the engine's operations only process_answer changes
\* benefit_scores (the one other writer is a caller that assigns the map itself)
C19_SimulationOnACopy ==
  [][/\ SelectNextQuestion =>
          UNCHANGED << benefit_scores, question_history, answers >>
     /\ benefit_scores' # benefit_scores =>
          \/ \E id \in QuestionIds, choice \in {"A", "B"} : ProcessAnswer(id, choice)
          \/ \E scores \in AssignedScores : AssignScores(scores)]_vars

\* a question selected after an answer, whose simulated answer A differs from the
\* live score map
C19_SelectedWithLiveMapIntact ==
  /\ ret.kind = "question"
  /\ Len(answers) > 0
  /\ simulate_answer(benefit_scores, Question(ret.question), "A") # benefit_scores

\* C20: no engine operation writes into a question of the question bank: the
\* expected_ig annotation of every bank question is the same after the operation as
\* before it (the other fields are never written)
C20_CatalogUnchanged ==
  [][(SelectNextQuestion
      \/ (\E id \in QuestionIds, choice \in {"A", "B"} : ProcessAnswer(id, choice))
      \/ GenerateRecommendations)
       => expected_ig' = expected_ig]_vars

\* the score process_answer leaves on benefit b: clamp(score + correlation * 11 *
\* (1 + 0.1 * k), 0, 100) for a benefit of the chosen side's map, else the old score
ScoreAfter(scores, correlations, b, k) ==
  IF HasKey(correlations, b)
  THEN Max(0, Min(100 * ScoreOne, scores[b] + Lookup(correlations, b) * 11 * (10 + k)))
  ELSE scores[b]

WeightsIncrease(log) ==
  \A i, j \in 1..Len(log) : i < j => log[i].confidence_weight < log[j].confidence_weight

\* C21: process_answer with k answers on the log appends exactly one record, with
\* confidence weight 1 + 0.1 * k, so that the recorded weights strictly increase
\* along the log; it sets each benefit of the chosen side's correlation map to
\* clamp(score + correlation * 11 * (1 + 0.1 * k), 0, 100) and leaves every other
\* benefit's score unchanged
C21_WeightedUpdate ==
  [][\A id \in QuestionIds, choice \in {"A", "B"} :
       ProcessAnswer(id, choice) =>
         /\ Len(answers') = Len(answers) + 1
         /\ SubSeq(answers', 1, Len(answers)) = answers
         /\ answers'[Len(answers')].question_id = id
         /\ answers'[Len(answers')].choice = choice
         /\ answers'[Len(answers')].confidence_weight = 10 + Len(answers)
         /\ WeightsIncrease(answers')
         /\ \A b \in Benefits :
              benefit_scores'[b]
                = ScoreAfter(benefit_scores, Correlations(Question(id), choice), b,
                             Len(answers))]_vars

\* a third or later answer that moved a score to a value strictly inside (0, 100)
\* while another benefit of the session lies outside the answer's correlation map
C21_LateAnswerApplied ==
  /\ Len(answers) >= 3
  /\ LastAnswer.confidence_weight = 10 + Len(answers) - 1
  /\ LET correlations == Correlations(Question(LastAnswer.question_id), LastAnswer.choice)
     IN  /\ \E i \in 1..Len(correlations) :
               /\ correlations[i][2] # 0
               /\ benefit_scores[correlations[i][1]] > 0
               /\ benefit_scores[correlations[i][1]] < 100 * ScoreOne
         /\ \E b \in Benefits : ~HasKey(correlations, b)

\* the score the selector computes for the question of the i-th answer in the state
\* that answer was given in (the session of the profile after the first i - 1
\* answers), in units of 1/IGOne
SelectorScore(i) ==
  LET before == ReplayOf(demographics, financials, SubSeq(answers, 1, i - 1)).benefit_scores
  IN  InformationGainFrom(Question(answers[i].question_id), before, EntropySum(before))

\* C22: with at least min_questions and fewer than max_questions answers,
\* should_stop() is true exactly when the entropy of the scores is below the entropy
\* threshold (0.05) or the mean of the selector's scores of the last three answered
\* questions is below 0.25
C22_StopsExactlyOnThresholds ==
  (Len(answers) >= min_questions /\ Len(answers) < max_questions) =>
    (Stopped <=>
       \/ calculate_entropy(benefit_scores) * 100 < 5 * One
       \/ (SelectorScore(Len(answers) - 2) + SelectorScore(Len(answers) - 1)
           + SelectorScore(Len(answers))) * 4 < 3 * IGOne)

\* the position of a benefit in the declaration order of BenefitType
DeclaredAt(b) == CHOOSE i \in 1..Len(BenefitType) : BenefitType[i] = b

TiesInOrder(recs) ==
  \A i, j \in 1..Len(recs) :
    (i < j /\ recs[i].score = recs[j].score)
      => DeclaredAt(recs[i].benefit_type) < DeclaredAt(recs[j].benefit_type)

\* C23: in the list generate_recommendations returns, two recommendations with the
\* same score appear in the declaration order of their BenefitType members
C23_TiesInDeclarationOrder == TiesInOrder(Recs)

\* C24: in the coverage details, the HSA recommended_annual_contribution is at most
\* the applicable maximum (8300 with children, 4150 without) and the 401k
\* recommended contribution rate is between 6 and 15 percent
C24_ContributionsWithinLimits ==
  Built =>
    /\ hsa_recommended_annual_contribution(demographics, financials)
         <= (IF demographics.num_children > 0 THEN 8300 ELSE 4150)
    /\ recommended_contribution_rate(benefit_scores["RETIREMENT_401K"]) >= 6
    /\ recommended_contribution_rate(benefit_scores["RETIREMENT_401K"]) <= 15

\* C25: the rationale follows benefit and tier: life insurance in the critical tier
\* gets the life sentence, disability in the critical or recommended tier the
\* income-protection sentence, pet insurance in the not-needed tier the no-pet
\* sentence, and the generic sentence is used only when none of the templates
\* applies
C25_RationaleByBenefitAndTier ==
  Built =>
    /\ Priority(benefit_scores["LIFE"]) = "CRITICAL"
         => RationaleOf(benefit_scores, "LIFE") = "life"
    /\ Priority(benefit_scores["DISABILITY"]) \in {"CRITICAL", "RECOMMENDED"}
         => RationaleOf(benefit_scores, "DISABILITY") = "disability"
    /\ Priority(benefit_scores["PET_INSURANCE"]) = "NOT_NEEDED"
         => RationaleOf(benefit_scores, "PET_INSURANCE") = "pet"
    /\ \A b \in {"LIFE", "DISABILITY", "PET_INSURANCE"} :
         RationaleOf(benefit_scores, b) = "generic"
           => \/ b = "LIFE" /\ Priority(benefit_scores[b]) # "CRITICAL"
              \/ b = "DISABILITY"
                   /\ Priority(benefit_scores[b]) \notin {"CRITICAL", "RECOMMENDED"}
              \/ b = "PET_INSURANCE" /\ Priority(benefit_scores[b]) # "NOT_NEEDED"

\* the output group of a priority tier
GroupOf(priority) ==
  CASE priority = "CRITICAL" -> "critical"
    [] priority = "RECOMMENDED" -> "recommended"
    [] priority = "OPTIONAL" -> "optional"
    [] OTHER -> "not_needed"

InGroup(output, rec, g) ==
  \E k \in 1..Len(output.groups[g]) : output.groups[g][k] = rec

\* C26: run_adaptive_questionnaire ends without an error, and its output lists
\* every generated recommendation under exactly one of the groups critical,
\* recommended, optional and not_needed, the one of its priority tier
C26_RunCompletesAndGroups ==
  /\ ret.kind # "error"
  /\ ret.kind = "output" =>
       \A i \in 1..Len(ret.recommendations) :
         \A g \in OutputGroups :
           InGroup(ret, ret.recommendations[i], g)
             <=> g = GroupOf(ret.recommendations[i].priority)

\* C27: select_next_question returns None only if should_stop() is true: while the
\* session is not stopped, an unasked question applicable to the demographics
\* exists and select_next_question returns a question
C27_NoneOnlyWhenStopped ==
  /\ ret.kind = "none" => Stopped
  /\ ~Stopped =>
       /\ \E i \in QIndex : Unasked(i) /\ Eligible(i)
       /\ NextQuestion # None

\* a question returned to a session that holds min_questions or more answers and
\* is not stopped
C27_AskedPastMinimum ==
  /\ ret.kind = "question"
  /\ Len(answers) >= min_questions
  /\ ~Stopped

DependentCareTracks == benefit_scores["DEPENDENT_CARE"] = benefit_scores["DEPENDENT_CARE_FSA"]

SupplementalLifeTracks == benefit_scores["SUPPLEMENTAL_LIFE"] = benefit_scores["LIFE"]

\* C28: in every session state, from the initial score map through any sequence of
\* answers, the DEPENDENT_CARE score equals the DEPENDENT_CARE_FSA score and the
\* SUPPLEMENTAL_LIFE score equals the LIFE score
C28_AliasesTrackPrimaries == Built => (DependentCareTracks /\ SupplementalLifeTracks)

\* simulate_answer gives the score map process_answer would produce with k answers
\* on the log, for every bank question and side
SimulationAgrees(scores, k) ==
  \A i \in QIndex, side \in {"A", "B"} :
    simulate_answer(scores, QuestionBank[i], side)
      = process_answer_scores(scores, QuestionBank[i], side, k)

FirstEngine ==
  << demographics, financials, benefit_scores, question_history, answers, expected_ig, ret >>

\* the engine s holds what a session of its profile holds after its own answers
OwnHistoryOnly(s) ==
  \E solo \in {ReplayOf(s.demographics, s.financials, s.answers)} :
    /\ s.benefit_scores = solo.benefit_scores
    /\ s.question_history = solo.question_history
    /\ \A id \in QuestionIds :
         s.expected_ig[id] # solo.expected_ig[id] =>
           \/ InHistory(s.question_history, id)
           \/ s.ret.question = id
           \/ s.ret.kind = "recommendations"

\* C30: with two engines at the same time, an operation on one engine leaves the
\* other engine's score map, logs, bank annotations and last result unchanged, and
\* each engine's scores are those of a session that was given its own answers alone
C30_SessionsIsolated ==
  /\ [][replay' = replay \/ FirstEngine' = FirstEngine]_vars
  /\ [](OwnHistoryOnly(replay)
        /\ OwnHistoryOnly([demographics |-> demographics, financials |-> financials,
                           benefit_scores |-> benefit_scores,
                           question_history |-> question_history, answers |-> answers,
                           expected_ig |-> expected_ig, ret |-> ret]))

\* two engines of the same profile that were asked and have answered differently
C30_BothEnginesAnswered ==
  /\ replay.demographics = demographics
  /\ Len(answers) = PairAnswers
  /\ Len(replay.answers) = PairAnswers
  /\ replay.benefit_scores # benefit_scores
  /\ ret.kind = "question"
  /\ replay.ret.kind = "question"
=============================================================================
